---- MODULE Spec2Model ----
(***************************************************************************)
(* Key-based joins of torchdata:                                           *)
(*   IterKeyZipperIterDataPipe  (zip_with_iter, the streaming join)        *)
(*   MapKeyZipperIterDataPipe   (zip_with_map, the lookup join)            *)
(* modelled from src/torchdata/datapipes/iter/util/combining.py.           *)
(*                                                                         *)
(* An item is a pair <<key, number>> as in the docstring examples          *)
(* (('a', 100), ('a', 1)); the i-th driving item carries 100*i and the     *)
(* j-th reference item carries j, so every item of a run is identifiable   *)
(* in an output.  key_fn and ref_key_fn are itemgetter(0), merge_fn is     *)
(* either None or the docstring's t1[1] + t2[1].                           *)
(***************************************************************************)
EXTENDS Integers, Sequences, FiniteSets, TLC

\* ------------------------------------------------------------------ bounds
MaxD == 2
MaxR == 4
MaxCap == 1
\* the inputs of the runs that are costlier to explore: passes in progress
\* at once, and passes under fairness
MaxDSmall == 2
MaxRSmall == 3

\* The keys of the docstring example, in alphabetical order.
KeyOrder == <<"a", "b", "c", "d">>
Keys == {KeyOrder[i] : i \in 1..Len(KeyOrder)}
KeyIdx(k) == CHOOSE i \in 1..Len(KeyOrder) : KeyOrder[i] = k

\* The passes made over one engine instance.
Passes == {1, 2, 3}

\* Optional[int]: None is the empty sequence, an integer c is <<c>>.
None == <<>>
Some(c) == <<c>>

Unbound == "unbound"

VARIABLES
    \* IterKeyZipperIterDataPipe: the fields set by __init__
    source_datapipe, ref_datapipe, keep_key, merge_fn, buffer_size,
    \* one generator frame of IterKeyZipperIterDataPipe.__iter__ per pass
    pc, buffer, ref_it, src_it, data, key, warn_once_flag,
    \* what each pass has shown its consumer
    yielded, raised, warned, evicted,
    \* MapKeyZipperIterDataPipe: fields and the frame of one pass
    source_iterdatapipe, map_datapipe, map_merge_fn,
    m_pc, m_it, m_yielded, m_raised,
    \* IterKeyZipperIterDataPipe.__init__: the buffer_size it is given and
    \* whether it has returned an engine
    arg_buffer_size, made,
    \* MapKeyZipperIterDataPipe.__len__: self.length, what
    \* len(source_iterdatapipe) reports now, the outcomes of the queries so
    \* far and the number of times the source was asked
    length, source_len, len_log, len_asked,
    \* IterToMapConverterMapDataPipe: its fields, what len(datapipe) reports,
    \* the number of times its source was iterated, the warnings issued and
    \* the outcome of the last call
    datapipe, datapipe_len, _map, _length, loads, c_warned, c_out

config == <<source_datapipe, ref_datapipe, keep_key, merge_fn, buffer_size>>
frames == <<pc, buffer, ref_it, src_it, data, key, warn_once_flag>>
shown == <<yielded, raised, warned, evicted>>
iterVars == <<config, frames, shown>>
mapVars == <<source_iterdatapipe, map_datapipe, map_merge_fn,
             m_pc, m_it, m_yielded, m_raised>>
ctorVars == <<arg_buffer_size, made>>
lenVars == <<length, source_len, len_log, len_asked>>
convVars == <<datapipe, datapipe_len, _map, _length, loads, c_warned, c_out>>
otherVars == <<ctorVars, lenVars, convVars>>
vars == <<iterVars, mapVars, otherVars>>

\* ----------------------------------------------------------------- inputs
SeqsUpTo(S, n) == UNION {[1..m -> S] : m \in 0..n}

Max(S) == IF S = {} THEN 0 ELSE CHOOSE x \in S : \A y \in S : y <= x

\* Keys are only ever compared for equality, so the inputs are enumerated up
\* to a renaming of the keys: a key's first occurrence comes after the first
\* occurrences of the keys before it in the alphabet.
FirstUse(ks) ==
    \A i \in 1..Len(ks) :
        KeyIdx(ks[i]) <= 1 + Max({KeyIdx(ks[j]) : j \in 1..(i - 1)})

\* IterableWrapper([(k1, 100), (k2, 200), ...]) and
\* IterableWrapper([(k1, 1), (k2, 2), ...]).
SourceOf(ks) == [i \in 1..Len(ks) |-> <<ks[i], 100 * i>>]
RefOf(ks) == [j \in 1..Len(ks) |-> <<ks[j], j>>]

\* ------------------------------------------------ the configured callables
\* key_fn=itemgetter(0)
key_fn(item) == item[1]

\* ref_key_fn=itemgetter(0)
ref_key_fn(item) == item[1]

\* def merge_fn(t1, t2): return t1[1] + t2[1]
MergeSum(t1, t2) == t1[2] + t2[2]

\* ------------------------------------------------------------ OrderedDict
\* The buffer is the sequence of its (ref_key, ref_data) entries in
\* insertion order.
BufferKeys(b) == {b[i][1] : i \in 1..Len(b)}

\* key in buffer
InBuffer(k, b) == k \in BufferKeys(b)

EntryIdx(b, k) == CHOOSE i \in 1..Len(b) : b[i][1] = k

\* the value returned by buffer.pop(key)
PoppedOldest(b, k) == b[1][2]

Popped(b, k) == b[EntryIdx(b, k)][2]

\* the buffer left by buffer.pop(key)
AfterPop_kept(b, k) == b

AfterPop(b, k) ==
    LET n == EntryIdx(b, k)
    IN  [i \in 1..(Len(b) - 1) |-> IF i < n THEN b[i] ELSE b[i + 1]]

\* the buffer left by buffer.popitem(last=False)
AfterPopItem_last(b) == SubSeq(b, 1, Len(b) - 1)

AfterPopItem(b) == Tail(b)

\* the buffer left by buffer[ref_key] = ref_data, ref_key not in buffer
AfterSetItem(b, k, v) == Append(b, <<k, v>>)

\* ---------------------------------------------- IterKeyZipper.__iter__
\* self.buffer_size is not None and len(buffer) > self.buffer_size
OverLimit_late(b) == buffer_size # None /\ Len(b) > buffer_size[1] + 1

OverLimit(b) == buffer_size # None /\ Len(b) > buffer_size[1]

\* ref_key in buffer
IsDuplicate_unchecked(ref_key, b) == FALSE

IsDuplicate(ref_key, b) == InBuffer(ref_key, b)

\* if warn_once_flag: warn_once_flag = False, inside the capacity test
FlagAfter_kept(over, flag) == flag

FlagAfter(over, flag) == IF over THEN FALSE ELSE flag

\* self.merge_fn(data, ...) if self.merge_fn else (data, ...)
Merged(d, r) == IF merge_fn = "sum" THEN MergeSum(d, r) ELSE <<d, r>>

\* yield key, res  /  yield res
YieldValue_bare(k, res) == res

YieldValue(k, res) == IF keep_key THEN <<k, res>> ELSE res

NoError == <<"none", <<>>>>
BufferErrorFor(d) == <<"BufferError", d>>
DuplicateKeyError == <<"ValueError", <<>>>>

\* while key not in buffer
NeedsMore_always(p) == TRUE

NeedsMore(p) == ~InBuffer(key[p], buffer[p])

\* The generator frame is created and runs up to the for statement.
StartPass_sharedBuffer(p) ==
    /\ pc[p] = "idle"
    /\ pc' = [pc EXCEPT ![p] = "for"]
    /\ buffer' = [q \in Passes |-> <<>>]
    /\ ref_it' = [ref_it EXCEPT ![p] = 0]
    /\ warn_once_flag' = [warn_once_flag EXCEPT ![p] = TRUE]
    /\ UNCHANGED <<src_it, data, key, config, shown, mapVars, otherVars>>

StartPass(p) ==
    /\ pc[p] = "idle"
    /\ pc' = [pc EXCEPT ![p] = "for"]
    /\ buffer' = [buffer EXCEPT ![p] = <<>>]
    /\ ref_it' = [ref_it EXCEPT ![p] = 0]
    /\ warn_once_flag' = [warn_once_flag EXCEPT ![p] = TRUE]
    /\ UNCHANGED <<src_it, data, key, config, shown, mapVars, otherVars>>

\* for data in self.source_datapipe: key = self.key_fn(data)
NextData_rejectRepeat(p) ==
    /\ pc[p] = "for"
    /\ src_it[p] < Len(source_datapipe)
    /\ src_it' = [src_it EXCEPT ![p] = @ + 1]
    /\ data' = [data EXCEPT ![p] = source_datapipe[src_it[p] + 1]]
    /\ key' = [key EXCEPT ![p] = key_fn(source_datapipe[src_it[p] + 1])]
    /\ IF \E i \in 1..src_it[p] :
             key_fn(source_datapipe[i]) = key_fn(source_datapipe[src_it[p] + 1])
          THEN /\ pc' = [pc EXCEPT ![p] = "raised"]
               /\ raised' = [raised EXCEPT ![p] = DuplicateKeyError]
          ELSE /\ pc' = [pc EXCEPT ![p] = "while"]
               /\ UNCHANGED raised
    /\ UNCHANGED <<buffer, ref_it, warn_once_flag, config, yielded, warned,
                   evicted, mapVars, otherVars>>

NextData(p) ==
    /\ pc[p] = "for"
    /\ src_it[p] < Len(source_datapipe)
    /\ src_it' = [src_it EXCEPT ![p] = @ + 1]
    /\ data' = [data EXCEPT ![p] = source_datapipe[src_it[p] + 1]]
    /\ key' = [key EXCEPT ![p] = key_fn(source_datapipe[src_it[p] + 1])]
    /\ pc' = [pc EXCEPT ![p] = "while"]
    /\ UNCHANGED <<buffer, ref_it, warn_once_flag, config, shown, mapVars, otherVars>>

\* the for statement finds source_datapipe exhausted: the generator returns
SourceExhausted(p) ==
    /\ pc[p] = "for"
    /\ src_it[p] = Len(source_datapipe)
    /\ pc' = [pc EXCEPT ![p] = "done"]
    /\ UNCHANGED <<buffer, ref_it, src_it, data, key, warn_once_flag,
                   config, shown, mapVars, otherVars>>

\* next(ref_it) raises StopIteration: raise BufferError
RefExhausted_skip(p) ==
    /\ pc[p] = "while"
    /\ NeedsMore(p)
    /\ ref_it[p] = Len(ref_datapipe)
    /\ pc' = [pc EXCEPT ![p] = "for"]
    /\ UNCHANGED <<buffer, ref_it, src_it, data, key, warn_once_flag,
                   config, shown, mapVars, otherVars>>

RefExhausted_spin(p) ==
    /\ pc[p] = "while"
    /\ NeedsMore(p)
    /\ ref_it[p] = Len(ref_datapipe)
    /\ UNCHANGED vars

RefExhausted(p) ==
    /\ pc[p] = "while"
    /\ NeedsMore(p)
    /\ ref_it[p] = Len(ref_datapipe)
    /\ raised' = [raised EXCEPT ![p] = BufferErrorFor(data[p])]
    /\ pc' = [pc EXCEPT ![p] = "raised"]
    /\ UNCHANGED <<buffer, ref_it, src_it, data, key, warn_once_flag,
                   config, yielded, warned, evicted, mapVars, otherVars>>

\* ref_data = next(ref_it); ref_key in buffer: raise ValueError
DuplicateRef(p) ==
    /\ pc[p] = "while"
    /\ NeedsMore(p)
    /\ ref_it[p] < Len(ref_datapipe)
    /\ IsDuplicate(ref_key_fn(ref_datapipe[ref_it[p] + 1]), buffer[p])
    /\ ref_it' = [ref_it EXCEPT ![p] = @ + 1]
    /\ raised' = [raised EXCEPT ![p] = DuplicateKeyError]
    /\ pc' = [pc EXCEPT ![p] = "raised"]
    /\ UNCHANGED <<buffer, src_it, data, key, warn_once_flag,
                   config, yielded, warned, evicted, mapVars, otherVars>>

\* ref_data = next(ref_it); the capacity test, the warning and the eviction;
\* buffer[ref_key] = ref_data
InsertRef(p) ==
    /\ pc[p] = "while"
    /\ NeedsMore(p)
    /\ ref_it[p] < Len(ref_datapipe)
    /\ LET ref_data == ref_datapipe[ref_it[p] + 1]
           ref_key == ref_key_fn(ref_data)
           over == OverLimit(buffer[p])
           kept == IF over THEN AfterPopItem(buffer[p]) ELSE buffer[p]
       IN  /\ ~IsDuplicate(ref_key, buffer[p])
           /\ ref_it' = [ref_it EXCEPT ![p] = @ + 1]
           /\ warn_once_flag' =
                  [warn_once_flag EXCEPT ![p] = FlagAfter(over, @)]
           /\ warned' =
                  [warned EXCEPT
                      ![p] = IF over /\ warn_once_flag[p] THEN @ + 1 ELSE @]
           /\ evicted' = [evicted EXCEPT ![p] = IF over THEN @ + 1 ELSE @]
           /\ buffer' = [buffer EXCEPT ![p] = AfterSetItem(kept, ref_key, ref_data)]
    /\ UNCHANGED <<pc, src_it, data, key, config, yielded, raised, mapVars, otherVars>>

\* key in buffer: res = merge of data and buffer.pop(key); yield
Emit(p) ==
    /\ pc[p] = "while"
    /\ InBuffer(key[p], buffer[p])
    /\ yielded' =
           [yielded EXCEPT
               ![p] = Append(@, YieldValue(key[p],
                                 Merged(data[p], Popped(buffer[p], key[p]))))]
    /\ buffer' = [buffer EXCEPT ![p] = AfterPop(buffer[p], key[p])]
    /\ pc' = [pc EXCEPT ![p] = "for"]
    /\ UNCHANGED <<ref_it, src_it, data, key, warn_once_flag, config,
                   raised, warned, evicted, mapVars, otherVars>>

Step(p) ==
    \/ NextData(p)
    \/ SourceExhausted(p)
    \/ RefExhausted(p)
    \/ DuplicateRef(p)
    \/ InsertRef(p)
    \/ Emit(p)

Finished(p) == pc[p] \in {"done", "raised"}

\* ---------------------------------------------------------- specifications
MapIdle ==
    /\ source_iterdatapipe = <<>>
    /\ map_datapipe = [items |-> <<>>, missing |-> "KeyError"]
    /\ map_merge_fn = "None"
    /\ m_pc = "idle"
    /\ m_it = 0
    /\ m_yielded = <<>>
    /\ m_raised = NoError

FramesIdle ==
    /\ pc = [p \in Passes |-> "idle"]
    /\ buffer = [p \in Passes |-> <<>>]
    /\ ref_it = [p \in Passes |-> 0]
    /\ src_it = [p \in Passes |-> 0]
    /\ data = [p \in Passes |-> <<>>]
    /\ key = [p \in Passes |-> Unbound]
    /\ warn_once_flag = [p \in Passes |-> TRUE]
    /\ yielded = [p \in Passes |-> <<>>]
    /\ raised = [p \in Passes |-> NoError]
    /\ warned = [p \in Passes |-> 0]
    /\ evicted = [p \in Passes |-> 0]

\* self.length = -1: no length cached yet.
NoLength == -1

\* The join engine exists already, built with the buffer_size it was given.
Constructed ==
    /\ made = "yes"
    /\ arg_buffer_size = buffer_size

LenIdle ==
    /\ length = NoLength
    /\ source_len = None
    /\ len_log = <<>>
    /\ len_asked = 0

ConvIdle ==
    /\ datapipe = <<>>
    /\ datapipe_len = None
    /\ _map = None
    /\ _length = -1
    /\ loads = 0
    /\ c_warned = <<>>
    /\ c_out = <<"none", "", "none", 0>>

BufferSizes == {None} \cup {Some(c) : c \in 1..MaxCap}

Init ==
    /\ \E rk \in SeqsUpTo(Keys, MaxR), dk \in SeqsUpTo(Keys, MaxD) :
           /\ FirstUse(rk \o dk)
           /\ ref_datapipe = RefOf(rk)
           /\ source_datapipe = SourceOf(dk)
    /\ keep_key \in BOOLEAN
    /\ merge_fn \in {"None", "sum"}
    /\ buffer_size \in BufferSizes
    /\ FramesIdle
    /\ MapIdle
    /\ Constructed
    /\ LenIdle
    /\ ConvIdle

\* One pass after the other: a pass starts when the passes before it are over.
StartNext(p) ==
    /\ \A q \in Passes : q < p => Finished(q)
    /\ StartPass(p)

Next == \E p \in Passes : StartNext(p) \/ Step(p)

Spec == Init /\ [][Next]_vars

InitSmall ==
    /\ \E rk \in SeqsUpTo(Keys, MaxRSmall), dk \in SeqsUpTo(Keys, MaxDSmall) :
           /\ FirstUse(rk \o dk)
           /\ ref_datapipe = RefOf(rk)
           /\ source_datapipe = SourceOf(dk)
    /\ keep_key \in BOOLEAN
    /\ merge_fn \in {"None", "sum"}
    /\ buffer_size \in BufferSizes
    /\ FramesIdle
    /\ MapIdle
    /\ Constructed
    /\ LenIdle
    /\ ConvIdle

\* Every pass is consumed to its end: the consumer keeps asking for the next
\* output of a pass that has not ended.
LiveSpec ==
    /\ InitSmall
    /\ [][Next]_vars
    /\ \A p \in Passes : WF_vars(StartNext(p) \/ Step(p))

\* Re-entrant iteration: pass 1 runs alone; passes 2 and 3 start once it is
\* over and take their steps in any order, each while the other is still in
\* progress.
StartAfterFirst(p) ==
    /\ p # 1 => Finished(1)
    /\ StartPass(p)

NextReentrant == \E p \in Passes : StartAfterFirst(p) \/ Step(p)

SpecReentrant == InitSmall /\ [][NextReentrant]_vars

\* ------------------------------------------------ MapKeyZipper.__iter__
\* A MapDataPipe: the keys it holds with their values, and the not-found
\* signal its __getitem__ raises (KeyError of a dict, IndexError of a list).
MapDataPipes ==
    {[items |-> [k \in S |-> 100 * KeyIdx(k)], missing |-> e] :
        S \in SUBSET Keys, e \in {"KeyError", "IndexError"}}

\* self.map_datapipe[key]
GetItem(m, k) ==
    IF k \in DOMAIN m.items THEN <<"ok", m.items[k]>> ELSE <<m.missing, k>>

\* def merge_fn(tuple_from_iter, value_from_map):
\*     return tuple_from_iter[0], tuple_from_iter[1] + value_from_map
MapMergeSum(t, v) == <<t[1], t[2] + v>>

\* self.merge_fn(item, map_item) if self.merge_fn else (item, map_item)
MapMerged(item, map_item) ==
    IF map_merge_fn = "sum" THEN MapMergeSum(item, map_item)
    ELSE <<item, map_item>>

\* raise KeyError(f"key_fn maps {item} to {key}, which is not a valid key ...")
KeyNotFound(item, k) == <<"KeyError: key_fn maps item to key", item, k>>

\* except (KeyError, IndexError)
Caught_keyErrorOnly(signal) == signal = "KeyError"

Caught(signal) == signal \in {"KeyError", "IndexError"}

\* for item in ...: key = key_fn(item); map_item = map_datapipe[key]; yield
MapYield ==
    /\ m_pc = "for"
    /\ m_it < Len(source_iterdatapipe)
    /\ LET item == source_iterdatapipe[m_it + 1]
           got == GetItem(map_datapipe, key_fn(item))
       IN  /\ got[1] = "ok"
           /\ m_yielded' = Append(m_yielded, MapMerged(item, got[2]))
    /\ m_it' = m_it + 1
    /\ UNCHANGED <<source_iterdatapipe, map_datapipe, map_merge_fn, m_pc,
                   m_raised, iterVars, otherVars>>

\* the lookup raises: the except clause raises the join's KeyError, any other
\* signal leaves the generator as it is
MapRaise ==
    /\ m_pc = "for"
    /\ m_it < Len(source_iterdatapipe)
    /\ LET item == source_iterdatapipe[m_it + 1]
           got == GetItem(map_datapipe, key_fn(item))
       IN  /\ got[1] # "ok"
           /\ m_raised' = IF Caught(got[1])
                             THEN KeyNotFound(item, key_fn(item))
                             ELSE <<got[1], <<>>, got[2]>>
    /\ m_it' = m_it + 1
    /\ m_pc' = "raised"
    /\ UNCHANGED <<source_iterdatapipe, map_datapipe, map_merge_fn,
                   m_yielded, iterVars, otherVars>>

\* source_iterdatapipe is exhausted: the generator returns
MapSourceExhausted ==
    /\ m_pc = "for"
    /\ m_it = Len(source_iterdatapipe)
    /\ m_pc' = "done"
    /\ UNCHANGED <<source_iterdatapipe, map_datapipe, map_merge_fn, m_it,
                   m_yielded, m_raised, iterVars, otherVars>>

IterIdle ==
    /\ source_datapipe = <<>>
    /\ ref_datapipe = <<>>
    /\ keep_key = FALSE
    /\ merge_fn = "None"
    /\ buffer_size = None
    /\ FramesIdle
    /\ Constructed

InitMap ==
    /\ \E dk \in SeqsUpTo(Keys, MaxD) : source_iterdatapipe = RefOf(dk)
    /\ map_datapipe \in MapDataPipes
    /\ map_merge_fn \in {"None", "sum"}
    /\ m_pc = "for"
    /\ m_it = 0
    /\ m_yielded = <<>>
    /\ m_raised = NoError
    /\ IterIdle
    /\ LenIdle
    /\ ConvIdle

NextMap == MapYield \/ MapRaise \/ MapSourceExhausted

SpecMap == InitMap /\ [][NextMap]_vars

\* ------------------------------- IterKeyZipperIterDataPipe.__init__
\* The buffer_size arguments tried: None and the integers around zero.
BufferSizeArgs == {None} \cup {Some(c) : c \in -MaxCap..MaxCap}

\* if buffer_size is not None and buffer_size <= 0: raise ValueError
SizeRejected_zeroAllowed(arg) == arg # None /\ arg[1] < 0

SizeRejected(arg) == arg # None /\ arg[1] <= 0

\* __init__ either raises ValueError, and then no engine exists, or stores
\* the buffer_size it was given and returns the engine.
Construct ==
    /\ made = "no"
    /\ IF SizeRejected(arg_buffer_size)
       THEN /\ made' = "ValueError"
            /\ UNCHANGED buffer_size
       ELSE /\ made' = "yes"
            /\ buffer_size' = arg_buffer_size
    /\ UNCHANGED <<source_datapipe, ref_datapipe, keep_key, merge_fn,
                   arg_buffer_size, frames, shown, mapVars, lenVars,
                   convVars>>

\* Passes need an engine.
StartConstructed(p) ==
    /\ made = "yes"
    /\ StartNext(p)

InitCtor ==
    /\ \E rk \in SeqsUpTo(Keys, MaxRSmall), dk \in SeqsUpTo(Keys, MaxDSmall) :
           /\ FirstUse(rk \o dk)
           /\ ref_datapipe = RefOf(rk)
           /\ source_datapipe = SourceOf(dk)
    /\ keep_key \in BOOLEAN
    /\ merge_fn \in {"None", "sum"}
    /\ arg_buffer_size \in BufferSizeArgs
    /\ made = "no"
    /\ buffer_size = None
    /\ FramesIdle
    /\ MapIdle
    /\ LenIdle
    /\ ConvIdle

NextCtor == Construct \/ \E p \in Passes : StartConstructed(p) \/ Step(p)

SpecCtor == InitCtor /\ [][NextCtor]_vars

\* ------------------------------- MapKeyZipperIterDataPipe.__len__
\* The number of length queries explored.
MaxQueries == 3

\* What len(source_iterdatapipe) can report: a length, or None for a source
\* without __len__, on which len() raises TypeError.
SourceLens == {None} \cup {Some(n) : n \in 0..MaxD}

\* if self.length == -1
Uncached_always(l) == TRUE

Uncached(l) == l = NoLength

\* __len__ on a source with a length: it is asked only when nothing is
\* cached, and what it reports is stored and returned.
LenReturns ==
    /\ Len(len_log) < MaxQueries
    /\ Uncached(length) => source_len # None
    /\ IF Uncached(length)
       THEN /\ length' = source_len[1]
            /\ len_asked' = len_asked + 1
       ELSE UNCHANGED <<length, len_asked>>
    /\ len_log' = Append(len_log, <<"ok", length'>>)
    /\ UNCHANGED <<source_len, iterVars, mapVars, ctorVars, convVars>>

\* __len__ on a source without one: len() raises TypeError before the
\* assignment to self.length.
LenRaises ==
    /\ Len(len_log) < MaxQueries
    /\ Uncached(length)
    /\ source_len = None
    /\ len_asked' = len_asked + 1
    /\ len_log' = Append(len_log, <<"TypeError", NoLength>>)
    /\ UNCHANGED <<length, source_len, iterVars, mapVars, ctorVars,
                   convVars>>

\* The source comes to report another length, or none.
SourceLenChanges ==
    /\ \E l \in SourceLens \ {source_len} : source_len' = l
    /\ UNCHANGED <<length, len_log, len_asked, iterVars, mapVars, ctorVars,
                   convVars>>

InitLen ==
    /\ \E dk \in SeqsUpTo(Keys, MaxD) :
           /\ source_iterdatapipe = RefOf(dk)
           /\ source_len \in {None, Some(Len(dk))}
    /\ map_datapipe \in MapDataPipes
    /\ map_merge_fn = "None"
    /\ m_pc = "idle"
    /\ m_it = 0
    /\ m_yielded = <<>>
    /\ m_raised = NoError
    /\ length = NoLength
    /\ len_log = <<>>
    /\ len_asked = 0
    /\ IterIdle
    /\ ConvIdle

NextLen == LenReturns \/ LenRaises \/ SourceLenChanges

SpecLen == InitLen /\ [][NextLen]_vars

\* ------------------------------- IterToMapConverterMapDataPipe
\* The longest source sequence explored.
MaxElems == 3

\* An element of the source, with key_value_fn None: len is what len(inp)
\* gives, None when inp has no length. The i-th pair carries the value i.
Pair(k, i) == [len |-> Some(2), key |-> k, value |-> i]
TooLong(i) == [len |-> Some(3), key |-> "", value |-> i]
Unsized(i) == [len |-> None, key |-> "", value |-> i]
Shapes == Keys \cup {"long", "unsized"}
ElementOf(sh, i) ==
    IF sh = "long" THEN TooLong(i)
    ELSE IF sh = "unsized" THEN Unsized(i)
    ELSE Pair(sh, i)

Sources ==
    {[i \in 1..Len(sh) |-> ElementOf(sh[i], i)] :
        sh \in SeqsUpTo(Shapes, MaxElems)}

\* _load_map stops at the first element that is not a sequence of two.
Malformed(src) == {i \in 1..Len(src) : src[i].len # Some(2)}

NRead(src) ==
    IF Malformed(src) = {} THEN Len(src)
    ELSE (CHOOSE i \in Malformed(src) : \A j \in Malformed(src) : i <= j) - 1

LoadError(src) ==
    IF Malformed(src) = {} THEN "none"
    ELSE IF src[NRead(src) + 1].len = None THEN "TypeError" ELSE "ValueError"

\* self._map[key] = value
SetItem_keepFirst(d, k, v) ==
    [x \in DOMAIN d \cup {k} |-> IF x \in DOMAIN d THEN d[x] ELSE v]

SetItem(d, k, v) == [x \in DOMAIN d \cup {k} |-> IF x = k THEN v ELSE d[x]]

\* The dict after the first n elements of the source went into it.
RECURSIVE Filled(_, _)
Filled(src, n) ==
    IF n = 0 THEN <<>>
    ELSE SetItem(Filled(src, n - 1), src[n].key, src[n].value)

\* warnings.warn(f"Found duplicate key {key}. ...")
DuplicateWarnings(src) ==
    LET dup == {i \in 1..NRead(src) :
                   \E j \in 1..(i - 1) : src[j].key = src[i].key}
        RECURSIVE upTo(_)
        upTo(n) == IF n = 0 THEN <<>>
                   ELSE IF n \in dup
                        THEN Append(upTo(n - 1), <<"duplicate", src[n].key>>)
                        ELSE upTo(n - 1)
    IN  upTo(NRead(src))

\* self._map after _load_map returned or raised: it is set to {} first and
\* filled in place, so what was read before a failure stays in it.
MapAfterLoad_dropped(src) ==
    IF LoadError(src) = "none" THEN Some(Filled(src, NRead(src))) ELSE None

MapAfterLoad(src) == Some(Filled(src, NRead(src)))

\* The outcome of a call: the method, its argument, how it ended and what
\* it returned.
Outcome(op, arg, status, value) == <<op, arg, status, value>>

\* if self._map is None: self._load_map()
\* The load is part of the call that finds the map unloaded: the source is
\* iterated, duplicate keys are warned about, and a malformed element ends
\* the call with its error.
Loads == _map = None

MapNow == IF Loads THEN MapAfterLoad(datapipe) ELSE _map

ErrorNow == IF Loads THEN LoadError(datapipe) ELSE "none"

LoadEffects(before) ==
    /\ _map' = MapNow
    /\ loads' = IF Loads THEN loads + 1 ELSE loads
    /\ c_warned' = IF Loads THEN before \o DuplicateWarnings(datapipe)
                   ELSE before

\* __getitem__(index)
ConvGetItem(index) ==
    /\ LoadEffects(c_warned)
    /\ c_out' = IF ErrorNow # "none"
                  THEN Outcome("getitem", index, ErrorNow, 0)
                ELSE IF index \in DOMAIN MapNow[1]
                  THEN Outcome("getitem", index, "ok", MapNow[1][index])
                ELSE Outcome("getitem", index, "KeyError", 0)
    /\ UNCHANGED <<datapipe, datapipe_len, _length, iterVars, mapVars,
                   ctorVars, lenVars>>

\* __len__: the cached length, else the size of a loaded map, else what the
\* source reports, else a warning, a load and the size of the map.
ConvLen ==
    IF _length > -1
    THEN /\ c_out' = Outcome("len", "", "ok", _length)
         /\ UNCHANGED <<datapipe, datapipe_len, _map, _length, loads,
                        c_warned, iterVars, mapVars, ctorVars, lenVars>>
    ELSE IF _map # None
    THEN /\ _length' = Cardinality(DOMAIN _map[1])
         /\ c_out' = Outcome("len", "", "ok", _length')
         /\ UNCHANGED <<datapipe, datapipe_len, _map, loads, c_warned,
                        iterVars, mapVars, ctorVars, lenVars>>
    ELSE IF datapipe_len # None
    THEN /\ _length' = datapipe_len[1]
         /\ c_out' = Outcome("len", "", "ok", _length')
         /\ UNCHANGED <<datapipe, datapipe_len, _map, loads, c_warned,
                        iterVars, mapVars, ctorVars, lenVars>>
    ELSE /\ LoadEffects(Append(c_warned, <<"len", "">>))
         /\ _length' = IF ErrorNow # "none" THEN -1
                       ELSE Cardinality(DOMAIN MapNow[1])
         /\ c_out' = IF ErrorNow # "none"
                       THEN Outcome("len", "", ErrorNow, 0)
                     ELSE Outcome("len", "", "ok", _length')
         /\ UNCHANGED <<datapipe, datapipe_len, iterVars, mapVars, ctorVars,
                        lenVars>>

\* __getstate__
ConvGetState ==
    /\ LoadEffects(c_warned)
    /\ c_out' = IF ErrorNow # "none"
                  THEN Outcome("getstate", "", ErrorNow, 0)
                ELSE Outcome("getstate", "", "ok", _length)
    /\ UNCHANGED <<datapipe, datapipe_len, _length, iterVars, mapVars,
                   ctorVars, lenVars>>

InitConv ==
    /\ datapipe \in Sources
    /\ datapipe_len \in {None, Some(Len(datapipe))}
    /\ _map = None
    /\ _length = -1
    /\ loads = 0
    /\ c_warned = <<>>
    /\ c_out = Outcome("none", "", "none", 0)
    /\ IterIdle
    /\ MapIdle
    /\ LenIdle

NextConv == (\E index \in Keys : ConvGetItem(index)) \/ ConvLen \/ ConvGetState

SpecConv == InitConv /\ [][NextConv]_vars

\* ------------------------------------------------------------------ claims
\* The positions of ref_datapipe at which key k occurs.
RefPositions(k) == {j \in 1..Len(ref_datapipe) : ref_datapipe[j][1] = k}

RefKeySet == {ref_datapipe[j][1] : j \in 1..Len(ref_datapipe)}

EveryKeyOnce ==
    \A i \in 1..Len(source_datapipe) :
        Cardinality(RefPositions(source_datapipe[i][1])) = 1

SourceKeysDistinct ==
    \A i, j \in 1..Len(source_datapipe) :
        i # j => source_datapipe[i][1] # source_datapipe[j][1]

RefKeysDistinct ==
    \A i, j \in 1..Len(ref_datapipe) :
        i # j => ref_datapipe[i][1] # ref_datapipe[j][1]

\* The output the documentation promises for driving item d and reference
\* item r: (key, merge) with keep_key, the merge alone without; the merge is
\* the sum of the second components or, with no merge_fn, the pair.
Expected(d, r) ==
    LET m == IF merge_fn = "sum" THEN d[2] + r[2] ELSE <<d, r>>
    IN  IF keep_key THEN <<d[1], m>> ELSE m

\* Pass p ended normally with one output per driving item, output i being
\* driving item i joined with the reference item of the same key.
JoinedAll(p) ==
    /\ pc[p] = "done"
    /\ Len(yielded[p]) = Len(source_datapipe)
    /\ \A i \in 1..Len(source_datapipe) :
           LET j == CHOOSE n \in RefPositions(source_datapipe[i][1]) : TRUE
           IN  yielded[p][i] = Expected(source_datapipe[i], ref_datapipe[j])

\* C1 as stated: whenever every key of D occurs exactly once in R, a pass
\* that has ended has ended normally with |D| correctly matched outputs in
\* D's order, whatever the buffer capacity.
C1_AsClaimed ==
    \A p \in Passes : (EveryKeyOnce /\ Finished(p)) => JoinedAll(p)

\* C1 amended: when the keys of D are pairwise distinct, the keys of R are
\* pairwise distinct, every key of D occurs in R and the pass evicts nothing
\* (always so with buffer_size None or buffer_size >= |R| - 1), a pass that
\* has ended has ended normally with |D| correctly matched outputs in D's
\* order.
C1_JoinComplete ==
    \A p \in Passes :
        /\ (buffer_size = None \/ buffer_size[1] >= Len(ref_datapipe) - 1)
               => evicted[p] = 0
        /\ ( /\ EveryKeyOnce
             /\ SourceKeysDistinct
             /\ RefKeysDistinct
             /\ evicted[p] = 0
             /\ Finished(p) ) => JoinedAll(p)

\* A bounded pass over two driving items whose matches arrive in the
\* opposite order has ended with both outputs.
C1_Witness ==
    /\ EveryKeyOnce /\ SourceKeysDistinct /\ RefKeysDistinct
    /\ buffer_size # None
    /\ pc[1] = "done"
    /\ evicted[1] = 0
    /\ Len(yielded[1]) = 2
    /\ Len(ref_datapipe) >= 3
    /\ RefPositions(source_datapipe[2][1]) = {1}

\* C2 as stated: a reference item whose key equals that of a reference item
\* pulled earlier in the pass makes the pass fail with the duplicate-key
\* error at that very pull, and the error is raised only at such a pull.
C2_AsClaimed ==
    \A p \in Passes :
        /\ \A j \in 1..ref_it[p] :
               (\E i \in 1..(j - 1) : ref_datapipe[i][1] = ref_datapipe[j][1])
                   => (raised[p] = DuplicateKeyError /\ ref_it[p] = j)
        /\ raised[p] = DuplicateKeyError =>
               \E i \in 1..(ref_it[p] - 1) :
                   ref_datapipe[i][1] = ref_datapipe[ref_it[p]][1]

\* Pass p takes no further step.
Halted(p) ==
    /\ pc'[p] = pc[p] /\ buffer'[p] = buffer[p] /\ ref_it'[p] = ref_it[p]
    /\ src_it'[p] = src_it[p] /\ data'[p] = data[p] /\ key'[p] = key[p]
    /\ warn_once_flag'[p] = warn_once_flag[p]
    /\ yielded'[p] = yielded[p] /\ raised'[p] = raised[p]
    /\ warned'[p] = warned[p] /\ evicted'[p] = evicted[p]

\* A pull by pass p fails with the duplicate-key error exactly when the key
\* of the pulled item is the key of an entry the buffer holds at the pull.
FailsOnKeyInBuffer(p) ==
    ref_it'[p] = ref_it[p] + 1 =>
        ( (ref_datapipe[ref_it[p] + 1][1] \in BufferKeys(buffer[p]))
            <=> (pc'[p] = "raised" /\ raised'[p] = <<"ValueError", <<>>>>) )

\* C2 amended: whenever a pass pulls a reference item whose key equals the
\* key of an entry the buffer holds at that pull (pulled earlier in the pass
\* and neither matched nor evicted since), the pass fails with the
\* duplicate-reference-key error at that pull, whatever the capacity; the
\* error is raised at no other pull, so never before a second occurrence of
\* a key has been pulled, and the pass takes no step after it.
C2_DuplicateInBuffer ==
    /\ [][\A p \in Passes : FailsOnKeyInBuffer(p)]_vars
    /\ [][\A p \in Passes : raised[p][1] = "ValueError" => Halted(p)]_vars
    /\ [](\A p \in Passes :
             raised[p][1] = "ValueError" =>
                 \E i \in 1..(ref_it[p] - 1) :
                     ref_datapipe[i][1] = ref_datapipe[ref_it[p]][1])

\* A bounded pass has failed on a duplicate after an eviction.
C2_Witness ==
    /\ buffer_size # None
    /\ pc[1] = "raised"
    /\ raised[1] = DuplicateKeyError
    /\ evicted[1] >= 1
    /\ ref_datapipe[ref_it[1]][1] \in BufferKeys(buffer[1])

\* The driving positions whose key occurs nowhere in R.
Unmatchable ==
    {i \in 1..Len(source_datapipe) : source_datapipe[i][1] \notin RefKeySet}

\* C3 as stated: if the key of driving item i occurs nowhere in R, a pass
\* that has ended has failed with the unmatched-key error, raised with all
\* of R pulled, and has emitted nothing for item i or a later item.
C3_AsClaimed ==
    \A p \in Passes : \A i \in Unmatchable :
        Finished(p) =>
            /\ raised[p][1] = "BufferError"
            /\ ref_it[p] = Len(ref_datapipe)
            /\ Len(yielded[p]) < i

\* C3 amended: if the key of driving item i occurs nowhere in R, a pass that
\* has ended has failed, with the unmatched-key error unless the
\* duplicate-reference-key error came first, and has emitted nothing for
\* item i or a later item; the unmatched-key error names the driving item
\* the pass stopped at (the one after the last output) and is raised only
\* with all of R pulled.
C3_UnmatchedKeyFails ==
    \A p \in Passes :
        /\ \A i \in Unmatchable :
               Finished(p) =>
                   /\ pc[p] = "raised"
                   /\ raised[p][1] \in {"BufferError", "ValueError"}
                   /\ Len(yielded[p]) < i
        /\ raised[p][1] = "BufferError" =>
               /\ ref_it[p] = Len(ref_datapipe)
               /\ Len(yielded[p]) < Len(source_datapipe)
               /\ raised[p][2] = source_datapipe[Len(yielded[p]) + 1]
               /\ raised[p][2][1] \notin BufferKeys(buffer[p])

\* A pass has output its first item and failed on the second, whose key is
\* nowhere in R, after pulling a reference item it had no use for.
C3_Witness ==
    /\ Unmatchable = {2}
    /\ Len(ref_datapipe) >= 2
    /\ pc[1] = "raised"
    /\ raised[1] = BufferErrorFor(source_datapipe[2])
    /\ Len(yielded[1]) = 1

\* C4 as stated: with a bounded capacity the buffer never holds more than
\* buffer_size entries once an insertion step is over.
C4_AsClaimed ==
    \A p \in Passes :
        buffer_size # None => Len(buffer[p]) <= buffer_size[1]

\* C5: a pass has issued the overflow warning once if it has evicted at
\* least one entry and not at all if it has evicted none; with buffer_size
\* None a pass evicts nothing and warns of nothing; every pass over the
\* engine that evicts issues its own warning.
C5_WarnOncePerPass ==
    \A p \in Passes :
        /\ evicted[p] = 0 => warned[p] = 0
        /\ evicted[p] >= 1 => warned[p] = 1
        /\ buffer_size = None => (evicted[p] = 0 /\ warned[p] = 0)

\* Two passes one after the other have each evicted twice and warned once.
C5_Witness ==
    /\ Finished(1) /\ evicted[1] >= 2 /\ warned[1] = 1
    /\ Finished(2) /\ evicted[2] >= 2 /\ warned[2] = 1

\* C6: in every pass, failed or not, there are never more outputs than
\* driving items, and output k is built from driving item k and a reference
\* item pulled in the pass whose key is the key of driving item k: their
\* merge (the pair without merge_fn), wrapped with the key exactly when
\* keep_key is set.
C6_OutputsFollowSource ==
    \A p \in Passes :
        /\ Len(yielded[p]) <= src_it[p]
        /\ src_it[p] <= Len(source_datapipe)
        /\ \A k \in 1..Len(yielded[p]) :
               \E j \in 1..ref_it[p] :
                   /\ ref_datapipe[j][1] = source_datapipe[k][1]
                   /\ yielded[p][k] =
                          Expected(source_datapipe[k], ref_datapipe[j])

\* A pass with keep_key and a merge_fn has failed after one output.
C6_Witness ==
    /\ keep_key /\ merge_fn = "sum"
    /\ pc[1] = "raised"
    /\ Len(yielded[1]) = 1
    /\ ref_it[1] >= 2

\* The driving positions whose key the MapDataPipe does not hold.
MapAbsent ==
    {i \in 1..Len(source_iterdatapipe) :
        source_iterdatapipe[i][1] \notin DOMAIN map_datapipe.items}

Min(S) == CHOOSE x \in S : \A y \in S : x <= y

\* The output the documentation promises for a driving item: it and the
\* value under its key, merged to (first, second + value) or paired.
MapExpected(item) ==
    LET v == map_datapipe.items[item[1]]
    IN  IF map_merge_fn = "sum" THEN <<item[1], item[2] + v>> ELSE <<item, v>>

\* C7: a pass of the lookup join has emitted the merge of each driving item
\* with the value under its key, in D's order, up to the first item whose key
\* the collection lacks; there it has failed with the join's own KeyError
\* carrying the item and its key, never with the collection's raw KeyError
\* or IndexError; with no key lacking it ends after |D| outputs.
C7_LookupJoin ==
    /\ \A k \in 1..Len(m_yielded) :
           /\ \A i \in 1..k : i \notin MapAbsent
           /\ m_yielded[k] = MapExpected(source_iterdatapipe[k])
    /\ m_raised[1] \notin {"KeyError", "IndexError"}
    /\ m_pc = "raised" =>
           /\ MapAbsent # {}
           /\ Len(m_yielded) = Min(MapAbsent) - 1
           /\ m_raised = <<"KeyError: key_fn maps item to key",
                           source_iterdatapipe[Min(MapAbsent)],
                           source_iterdatapipe[Min(MapAbsent)][1]>>
    /\ m_pc = "done" =>
           /\ MapAbsent = {}
           /\ Len(m_yielded) = Len(source_iterdatapipe)
    /\ m_pc = "for" => Len(m_yielded) = m_it

\* A pass over a list-like collection has failed on its second item.
C7_Witness ==
    /\ map_datapipe.missing = "IndexError"
    /\ m_pc = "raised"
    /\ Len(m_yielded) = 1
    /\ map_merge_fn = "sum"

\* C8: passes over one engine, each with its own cursors, end with the same
\* outputs and the same error whether a pass runs alone (pass 1) or with its
\* steps interleaved with another's (passes 2 and 3); a step of one pass
\* leaves the buffer, the cursors, the flag and the outputs of the others as
\* they are, and no step changes the engine's fields.
C8_PassesIndependent ==
    /\ [](\A p, q \in Passes :
             (Finished(p) /\ Finished(q)) =>
                 /\ yielded[p] = yielded[q]
                 /\ raised[p] = raised[q]
                 /\ pc[p] = pc[q])
    /\ [][\A p, q \in Passes : (p # q /\ ~Halted(p)) => Halted(q)]_vars
    /\ [][UNCHANGED config]_vars

\* After pass 1, passes 2 and 3 are both in progress with different buffers.
C8_Witness ==
    /\ Finished(1)
    /\ pc[2] = "while" /\ Len(yielded[2]) = 1 /\ Len(buffer[2]) = 2
    /\ pc[3] = "while" /\ yielded[3] = <<>> /\ Len(buffer[3]) = 1

\* C9: the reference cursor of a pass moves only one item forward, and only
\* in a state where the pass is searching for the key of its current driving
\* item and the buffer does not hold that key: not before the first driving
\* item, not after the last, and it is never set back.
C9_LazyPull ==
    [][\A p \in Passes :
          ref_it'[p] # ref_it[p] =>
              /\ ref_it'[p] = ref_it[p] + 1
              /\ pc[p] = "while"
              /\ src_it[p] >= 1
              /\ data[p] = source_datapipe[src_it[p]]
              /\ key[p] = data[p][1]
              /\ key[p] \notin BufferKeys(buffer[p])]_vars

\* A pass holds the key it searches for while reference items are unpulled.
C9_Witness ==
    /\ pc[1] = "while"
    /\ key[1] \in BufferKeys(buffer[1])
    /\ ref_it[1] >= 2
    /\ ref_it[1] < Len(ref_datapipe)

\* C10: every pass consumed to its end ends, normally or with an error; it
\* ends normally exactly when it has an output for every driving item; once
\* D is exhausted the pass pulls, checks and emits nothing more, whatever is
\* left in the buffer and in R.
C10_Terminates ==
    /\ \A p \in Passes : <>Finished(p)
    /\ [](\A p \in Passes :
             /\ pc[p] = "done" <=>
                    (Finished(p) /\ Len(yielded[p]) = Len(source_datapipe))
             /\ pc[p] = "done" => src_it[p] = Len(source_datapipe))
    /\ [][\A p \in Passes :
             (pc[p] = "for" /\ src_it[p] = Len(source_datapipe)) =>
                 /\ pc'[p] \in {"for", "done"}
                 /\ buffer'[p] = buffer[p] /\ ref_it'[p] = ref_it[p]
                 /\ yielded'[p] = yielded[p] /\ raised'[p] = raised[p]]_vars
    /\ [][\A p \in Passes : pc[p] = "done" => Halted(p)]_vars

\* A pass has ended normally with an entry left in the buffer and, left
\* unpulled in R, an item with the key of that entry.
C10_Witness ==
    /\ pc[1] = "done"
    /\ Len(buffer[1]) = 1
    /\ ref_it[1] < Len(ref_datapipe)
    /\ ref_datapipe[ref_it[1] + 1][1] \in BufferKeys(buffer[1])

\* The entry of buffer b that was pulled first: reference item j carries j.
Earliest(b) ==
    CHOOSE e \in {b[i] : i \in 1..Len(b)} :
        \A i \in 1..Len(b) : e[2][2] <= b[i][2][2]

\* Buffer b without the entries equal to e, the others in their order.
Without(b, e) ==
    LET Other(x) == x # e
    IN  SelectSeq(b, Other)

RefIdxOf(o) ==
    LET body == IF keep_key THEN o[2] ELSE o
    IN  IF merge_fn = "sum" THEN body % 100 ELSE body[2][2]

\* C15: a match removes the entry of the matched key and nothing else: the
\* buffer shrinks by one and the other entries keep their order; no two
\* outputs of a pass are built from the same reference item.
C15_MatchRemovesOne ==
    /\ [][\A p \in Passes :
             yielded'[p] # yielded[p] =>
                 LET NotMatched(e) == e[1] # key[p]
                 IN  /\ Len(buffer'[p]) = Len(buffer[p]) - 1
                     /\ buffer'[p] = SelectSeq(buffer[p], NotMatched)]_vars
    /\ [](\A p \in Passes : \A i, k \in 1..Len(yielded[p]) :
             i # k => RefIdxOf(yielded[p][i]) # RefIdxOf(yielded[p][k]))

\* Two driving items of one key have both been matched, an entry is left.
C15_Witness ==
    /\ Len(yielded[1]) = 2
    /\ source_datapipe[1][1] = source_datapipe[2][1]
    /\ Len(buffer[1]) >= 1

\* C16 as stated: a bounded pass whose buffer holds more than buffer_size
\* entries has issued the overflow warning.
C16_AsClaimed ==
    \A p \in Passes :
        (buffer_size # None /\ Len(buffer[p]) > buffer_size[1])
            => warned[p] >= 1

\* The driving positions after the first whose key an earlier position has.
Repeats ==
    {k \in 1..Len(source_datapipe) :
        \E i \in 1..(k - 1) : source_datapipe[i][1] = source_datapipe[k][1]}

\* The driving positions up to k that have the key of position k.
SameKeyUpTo(k) ==
    {i \in 1..k : source_datapipe[i][1] = source_datapipe[k][1]}

\* C17 as stated: a pass that has ended and had reached a driving item whose
\* key an earlier driving item had has either matched it with a reference
\* item of that key, and has done so if R holds one such item for each
\* driving item of that key so far, or has failed at it with the
\* unmatched-key error with all of R pulled.
C17_AsClaimed ==
    \A p \in Passes : \A k \in Repeats :
        (Finished(p) /\ Len(yielded[p]) >= k - 1) =>
            /\ \/ Len(yielded[p]) >= k
               \/ /\ raised[p] = <<"BufferError", source_datapipe[k]>>
                  /\ ref_it[p] = Len(ref_datapipe)
            /\ Cardinality(RefPositions(source_datapipe[k][1]))
                   >= Cardinality(SameKeyUpTo(k)) => Len(yielded[p]) >= k

\* C17 amended: the duplicate-key error is raised only when the pulled reference
\* item has the key of a reference item pulled before it, never when R's
\* keys are distinct, however often a key occurs in D; a driving item whose
\* key an earlier driving item had is matched with a reference item of that
\* key pulled after the earlier one's match, and otherwise fails with the
\* unmatched-key error with all of R pulled, unless the duplicate-key error
\* of R's own keys ends the pass first.
C17_DrivingDuplicatesAllowed ==
    \A p \in Passes :
        /\ raised[p][1] = "ValueError" =>
               /\ ~RefKeysDistinct
               /\ \E i \in 1..(ref_it[p] - 1) :
                      ref_datapipe[i][1] = ref_datapipe[ref_it[p]][1]
        /\ \A i, k \in 1..Len(yielded[p]) :
               (i < k /\ source_datapipe[i][1] = source_datapipe[k][1]) =>
                   /\ RefIdxOf(yielded[p][k]) > RefIdxOf(yielded[p][i])
                   /\ RefIdxOf(yielded[p][k]) <= ref_it[p]
                   /\ ref_datapipe[RefIdxOf(yielded[p][k])][1]
                          = source_datapipe[k][1]
        /\ \A k \in 1..Len(source_datapipe) :
               ( /\ Finished(p)
                 /\ Len(yielded[p]) = k - 1
                 /\ \E i \in 1..(k - 1) :
                        source_datapipe[i][1] = source_datapipe[k][1]
                 /\ raised[p][1] # "ValueError" ) =>
                   /\ raised[p] = <<"BufferError", source_datapipe[k]>>
                   /\ ref_it[p] = Len(ref_datapipe)

\* The two driving items have one key and both have been matched, with
\* reference items that a third lies between.
C17_Witness ==
    /\ Len(yielded[1]) = 2
    /\ source_datapipe[1][1] = source_datapipe[2][1]
    /\ RefIdxOf(yielded[1][1]) = 1
    /\ RefIdxOf(yielded[1][2]) = 3

\* C19: with a bounded capacity the buffer never holds more than
\* buffer_size + 1 entries, and no more than buffer_size where the pass
\* stands after an output (the matched entry removed) or at its end.
C19_BufferBound ==
    \A p \in Passes :
        buffer_size # None =>
            /\ Len(buffer[p]) <= buffer_size[1] + 1
            /\ pc[p] \in {"for", "done"} => Len(buffer[p]) <= buffer_size[1]

\* After evictions the buffer held buffer_size + 1 entries; the output has
\* left buffer_size.
C19_Witness ==
    /\ buffer_size # None
    /\ pc[1] = "for"
    /\ Len(yielded[1]) = 1
    /\ evicted[1] >= 1
    /\ Len(buffer[1]) = buffer_size[1]


\* ------------------------------------------------------------------- C11
NonPositive(arg) == arg \in {Some(c) : c \in -MaxCap..0}

\* C11: construction rejects a buffer_size of zero or below with a
\* configuration error and produces no engine, so no pass ever runs; None
\* and every positive integer are accepted and stored as given; after
\* construction the capacity never changes, and a pass raises nothing but
\* the two errors of the join itself.
C11_ValidatedAtConstruction ==
    /\ [](made = "ValueError" <=>
              (made # "no" /\ NonPositive(arg_buffer_size)))
    /\ [](made = "yes" =>
              /\ arg_buffer_size \in {None} \cup {Some(c) : c \in 1..MaxCap}
              /\ buffer_size = arg_buffer_size)
    /\ [](made # "yes" => \A p \in Passes : pc[p] = "idle")
    /\ [][made # "no" => (made' = made /\ buffer_size' = buffer_size)]_vars
    /\ [](\A p \in Passes :
              /\ raised[p][1] \in {"none", "BufferError", "ValueError"}
              /\ raised[p][1] = "ValueError" => raised[p] = DuplicateKeyError)

\* A construction with buffer_size 0 was refused.
C11_Witness ==
    /\ made = "ValueError"
    /\ arg_buffer_size = Some(0)
    /\ \A p \in Passes : pc[p] = "idle"


\* ------------------------------------------------------------------- C12
Answers == {len_log[i][2] : i \in {j \in 1..Len(len_log) : len_log[j][1] = "ok"}}

Failures == {i \in 1..Len(len_log) : len_log[i][1] = "TypeError"}

\* C12: the first length query that succeeds returns what the driving
\* source reports at that moment and caches it; every later query returns
\* the same number without asking the source again, whatever the source
\* reports by then and whatever the size of the map; a query that fails
\* because the source has no length caches nothing.
C12_LengthCached ==
    /\ [][(Answers = {} /\ Answers' # {}) => Answers' = {source_len[1]}]_vars
    /\ [](Cardinality(Answers) <= 1)
    /\ [](Answers # {} => Answers = {length})
    /\ [](Answers = {} => length = -1)
    /\ [](len_asked = Cardinality(Failures) + Cardinality(Answers))
    /\ [](\A i \in Failures, j \in 1..Len(len_log) :
              len_log[j][1] = "ok" => i < j)

\* A failed query, then two successful ones that agree although the source
\* reports another length by now and the map has yet another size.
C12_Witness ==
    /\ Len(len_log) = 3
    /\ len_log[1][1] = "TypeError"
    /\ len_log[2][1] = "ok"
    /\ len_log[3] = len_log[2]
    /\ source_len # None
    /\ source_len[1] # length
    /\ Cardinality(DOMAIN map_datapipe.items) \notin {length, source_len[1]}
    /\ len_asked = 2


\* ------------------------------------------------------------------- C13
\* The positions of the source read as pairs: those up to the first element
\* that is not a sequence of two.
Intact == {i \in 1..Len(datapipe) : \A j \in 1..i : datapipe[j].len = Some(2)}

WellFormed == Intact = 1..Len(datapipe)

KeysRead == {datapipe[i].key : i \in Intact}

\* The value of the last pair read that carries key k (the i-th pair
\* carries the value i).
LastOf(k) == Max({i \in Intact : datapipe[i].key = k})

Repeated ==
    {i \in Intact : \E j \in 1..(i - 1) : datapipe[j].key = datapipe[i].key}

\* C13: on a source of pairs only, once the map is loaded a lookup returns
\* the value of the last pair with that key (KeyError for a key no pair
\* has); a repeated key gives one warning per repetition and replaces the
\* value, and no call ends with the errors of a failed load.
C13_LastPairWins ==
    WellFormed =>
        /\ _map # None =>
               /\ DOMAIN _map[1] = KeysRead
               /\ \A k \in KeysRead : _map[1][k] = LastOf(k)
               /\ Cardinality({w \in 1..Len(c_warned) :
                                  c_warned[w][1] = "duplicate"})
                      = Cardinality(Repeated)
               /\ \A i \in Repeated :
                      \E w \in 1..Len(c_warned) :
                          c_warned[w] = <<"duplicate", datapipe[i].key>>
        /\ c_out[1] = "getitem" =>
               c_out = IF c_out[2] \in KeysRead
                       THEN <<"getitem", c_out[2], "ok", LastOf(c_out[2])>>
                       ELSE <<"getitem", c_out[2], "KeyError", 0>>
        /\ c_out[3] \notin {"TypeError", "ValueError"}

\* A key carried by two pairs was looked up: the later value came back and
\* the repetition was warned about.
C13_Witness ==
    /\ WellFormed
    /\ Repeated # {}
    /\ c_out[1] = "getitem"
    /\ c_out[3] = "ok"
    /\ c_out[4] \in Repeated
    /\ \E i \in Intact : i < c_out[4] /\ datapipe[i].key = c_out[2]
    /\ <<"duplicate", c_out[2]>> \in {c_warned[w] : w \in 1..Len(c_warned)}

\* ------------------------------------------------------------------- C18
\* C18: over any calls of __getitem__, __len__ and __getstate__ the source
\* is iterated at most once, and only by a call that finds the map
\* unloaded; from then on the map is loaded and stays what that one
\* iteration left in it, the pairs before the first malformed element, and
\* every later call is served from it without another load or load error.
C18_LoadedOnce ==
    /\ [](loads <= 1)
    /\ [](loads = 1 <=> _map # None)
    /\ [][loads' # loads => (_map = None /\ loads' = loads + 1)]_vars
    /\ [][_map # None => _map' = _map]_vars
    /\ [][_map # None => c_out'[3] \in {"ok", "KeyError"}]_vars
    /\ [](_map # None =>
              /\ DOMAIN _map[1] = KeysRead
              /\ \A k \in KeysRead : _map[1][k] = LastOf(k))
    /\ []((c_out[1] = "getitem" /\ c_out[3] = "ok") =>
              (c_out[2] \in KeysRead /\ c_out[4] = LastOf(c_out[2])))

\* The load failed on a malformed element after a pair and before another;
\* a later lookup of the first pair's key was answered from the map, with
\* the source iterated once.
C18_Witness ==
    /\ ~WellFormed
    /\ Intact # {}
    /\ \E i \in 1..Len(datapipe) : i \notin Intact /\ datapipe[i].len = Some(2)
    /\ loads = 1
    /\ _map # None
    /\ c_out[1] = "getitem"
    /\ c_out[3] = "ok"

====
